---- MODULE Spec2Model ----
(***************************************************************************)
(* GoRunPy worker (src/python/gorunpy/__init__.py): the registry, the      *)
(* validation engine, the one-shot dispatch protocol of main(), and the    *)
(* export-time checks.                                                     *)
(*                                                                         *)
(* Python values are records tagged by k; type hints are records tagged    *)
(* by t with the typing arguments in args; Optional[str] fields are        *)
(* sequences of length 0 (None) or 1.                                      *)
(***************************************************************************)
EXTENDS Integers, Sequences, FiniteSets, TLC

VARIABLES registry, pc, raw_input, request, func_info, validated_args,
          result, exc, stdout, stderr, exit_code, exit_status, calls, vcall

vars == <<registry, pc, raw_input, request, func_info, validated_args,
          result, exc, stdout, stderr, exit_code, exit_status, calls, vcall>>

(***************************************************************************)
(* Bounds                                                                  *)
(***************************************************************************)
\* number of @export declarations the worker module makes before main()
MaxExports == 2

\* nesting depth of the type annotations given to the type mapping
MaxDepth == 2

(***************************************************************************)
(* Python values                                                           *)
(***************************************************************************)
None == <<>>
Some(x) == <<x>>

Null == [k |-> "null"]
B(b) == [k |-> "bool", v |-> b]
I(n) == [k |-> "int", v |-> n]
F(n) == [k |-> "float", v |-> n]
S(s) == [k |-> "str", v |-> s]
L(items) == [k |-> "list", v |-> items]
E(key, val) == [key |-> key, val |-> val]
D(entries) == [k |-> "dict", v |-> entries]
\* a Python object json cannot encode (a set), which only a body can produce
Obj == [k |-> "set"]

\* type(value).__name__
PyTypeName(value) ==
  IF value.k = "null" THEN "NoneType" ELSE value.k

\* isinstance(value, cls) for the classes the engine asks about; bool is a
\* subclass of int
IsInstance(value, cls) ==
  CASE cls = "int" -> value.k \in {"int", "bool"}
    [] OTHER -> value.k = cls

\* k in d for a dict value
DictHas(d, key) == \E i \in 1..Len(d.v) : d.v[i].key = key
\* d[k]
DictGet(d, key) == d.v[CHOOSE i \in 1..Len(d.v) : d.v[i].key = key].val
\* d.get(k, default)
DictGetDefault(d, key, default) ==
  IF DictHas(d, key) THEN DictGet(d, key) ELSE default

\* sub in s, for two str
StrContains(s, sub) ==
  \E i \in 1..(Len(s) - Len(sub) + 1) : SubSeq(s, i, i + Len(sub) - 1) = sub

\* x in container, as `in` evaluates it on each builtin type; "raise" where
\* the right operand does not support membership (int, float, bool, None)
PyIn(x, container) ==
  CASE container.k = "dict" -> IF DictHas(container, x) THEN "yes" ELSE "no"
    [] container.k = "list" ->
         IF \E i \in 1..Len(container.v) : container.v[i] = x
         THEN "yes" ELSE "no"
    [] container.k = "str" ->
         IF x.k = "str" /\ StrContains(container.v, x.v) THEN "yes" ELSE "no"
    [] OTHER -> "raise"

(***************************************************************************)
(* Type hints                                                              *)
(***************************************************************************)
TInt == [t |-> "int", args |-> <<>>]
TFloat == [t |-> "float", args |-> <<>>]
TStr == [t |-> "str", args |-> <<>>]
TBool == [t |-> "bool", args |-> <<>>]
TNone == [t |-> "NoneType", args |-> <<>>]
TAny == [t |-> "Any", args |-> <<>>]
TList(item) == [t |-> "List", args |-> <<item>>]
TListBare == [t |-> "List", args |-> <<>>]
TDict(key, val) == [t |-> "Dict", args |-> <<key, val>>]
TDictBare == [t |-> "Dict", args |-> <<>>]
TUnion(members) == [t |-> "Union", args |-> members]
TOptional(inner) == TUnion(<<inner, TNone>>)
\* a class outside the JSON types (bytes)
TBytes == [t |-> "bytes", args |-> <<>>]

\* typing.get_origin
get_origin(type_hint) ==
  CASE type_hint.t = "List" -> "list"
    [] type_hint.t = "Dict" -> "dict"
    [] type_hint.t = "Union" -> "Union"
    [] OTHER -> "None"

\* typing.get_args
get_args(type_hint) == type_hint.args

\* x in args, for a tuple of type hints
InArgs(x, args) == \E i \in 1..Len(args) : args[i] = x

(***************************************************************************)
(* Exceptions                                                              *)
(***************************************************************************)
Exception(cls, kind, message, field) ==
  [cls |-> cls, kind |-> kind, message |-> message, field |-> field,
   code |-> 0]

\* GoRunPyError(message, kind="Error", field=None)
GoRunPyError(message, kind, field) ==
  Exception("GoRunPyError", kind, message, field)
ValidationError(message, field) ==
  Exception("ValidationError", "ValidationError", message, field)
TypeError_(message, field) ==
  Exception("TypeError_", "TypeError", message, field)
FunctionNotFoundError(function_name) ==
  Exception("FunctionNotFoundError", "FunctionNotFoundError",
            "function '" \o function_name \o "' not found", None)
\* an exception of a builtin class (TypeError, RuntimeError, ValueError, ...)
\* or SystemExit; kind holds nothing, message is str(e)
Builtin(cls, message) == Exception(cls, "", message, None)
\* SystemExit(code), raised by sys.exit(code)
SystemExit(code) ==
  [Exception("SystemExit", "", ToString(code), None) EXCEPT !.code = code]

GoRunPyClasses ==
  {"GoRunPyError", "ValidationError", "TypeError_", "FunctionNotFoundError"}
\* classes deriving from BaseException but not from Exception
BaseOnlyClasses == {"SystemExit", "KeyboardInterrupt"}

\* isinstance(e, GoRunPyError)
IsGoRunPyError(e) == e.cls \in GoRunPyClasses
\* isinstance(e, Exception)
IsException(e) == e.cls \notin BaseOnlyClasses

\* to_dict that leaves the field out
to_dict_FieldDropped(e) == [kind |-> e.kind, message |-> e.message]

\* GoRunPyError.to_dict
to_dict(e) ==
  IF e.field # None
  THEN [kind |-> e.kind, message |-> e.message, field |-> e.field[1]]
  ELSE [kind |-> e.kind, message |-> e.message]

Return(value) == [raised |-> FALSE, value |-> value]
Raise(e) == [raised |-> TRUE, exc |-> e]

(***************************************************************************)
(* String forms                                                            *)
(***************************************************************************)
RECURSIVE JoinStr(_, _)
\* sep.join(strs)
JoinStr(strs, sep) ==
  IF Len(strs) = 0 THEN ""
  ELSE IF Len(strs) = 1 THEN strs[1]
  ELSE strs[1] \o sep \o JoinStr(Tail(strs), sep)

\* str(value) for the values that occur as dict keys
PyFormat(value) ==
  CASE value.k = "str" -> value.v
    [] value.k \in {"int", "float"} -> ToString(value.v)
    [] value.k = "bool" -> IF value.v THEN "True" ELSE "False"
    [] value.k = "null" -> "None"
    [] OTHER -> value.k

IsClass(type_hint) ==
  type_hint.t \in {"int", "float", "str", "bool", "NoneType", "bytes"}

RECURSIVE TypeRepr(_)
\* typing._type_repr: how a hint prints inside a typing generic
TypeRepr(type_hint) ==
  LET args == get_args(type_hint)
      inner == [i \in 1..Len(args) |-> TypeRepr(args[i])]
      nonNone == SelectSeq(args, LAMBDA a : a # TNone)
  IN CASE IsClass(type_hint) -> type_hint.t
       [] type_hint.t = "Any" -> "typing.Any"
       [] type_hint.t = "Union" /\ Len(args) = 2 /\ Len(nonNone) = 1 ->
            "typing.Optional[" \o TypeRepr(nonNone[1]) \o "]"
       [] Len(args) = 0 -> "typing." \o type_hint.t
       [] OTHER -> "typing." \o type_hint.t \o "[" \o JoinStr(inner, ", ") \o "]"

\* str(type_hint)
PyStr(type_hint) ==
  IF IsClass(type_hint) THEN "<class '" \o type_hint.t \o "'>"
  ELSE TypeRepr(type_hint)

(***************************************************************************)
(* _validate_value                                                         *)
(***************************************************************************)
RECURSIVE _validate_value(_, _, _)
RECURSIVE ValidateUnion(_, _, _, _)
RECURSIVE ValidateItems(_, _, _, _, _)
RECURSIVE ValidateEntries(_, _, _, _, _)

\* ValidateUnion in which a later member that accepts the value wins over
\* an earlier one
ValidateUnion_LastMatch(value, args, field_name, i) ==
  IF i > Len(args)
  THEN LET nonNone == SelectSeq(args, LAMBDA a : a # TNone)
           type_names == [j \in 1..Len(nonNone) |->
                            "'" \o PyStr(nonNone[j]) \o "'"]
       IN Raise(TypeError_("expected one of [" \o JoinStr(type_names, ", ")
                             \o "], got " \o PyTypeName(value),
                           Some(field_name)))
  ELSE LET rest == ValidateUnion(value, args, field_name, i + 1)
       IN IF args[i] = TNone \/ ~rest.raised THEN rest
          ELSE LET r == _validate_value(value, args[i], field_name)
               IN IF r.raised THEN rest ELSE r

\* lines 185-202: the members in declared order, the first success returns
ValidateUnion(value, args, field_name, i) ==
  IF i > Len(args)
  THEN LET nonNone == SelectSeq(args, LAMBDA a : a # TNone)
           type_names == [j \in 1..Len(nonNone) |->
                            "'" \o PyStr(nonNone[j]) \o "'"]
       IN Raise(TypeError_("expected one of [" \o JoinStr(type_names, ", ")
                             \o "], got " \o PyTypeName(value),
                           Some(field_name)))
  ELSE IF args[i] # TNone
       THEN LET r == _validate_value(value, args[i], field_name)
            IN IF r.raised THEN ValidateUnion(value, args, field_name, i + 1)
               ELSE r
       ELSE ValidateUnion(value, args, field_name, i + 1)

RECURSIVE ValidateItems_NoIndex(_, _, _, _, _)
\* ValidateItems with every item validated under the list's own field name
ValidateItems_NoIndex(items, item_type, field_name, i, acc) ==
  IF i > Len(items) THEN Return(L(acc))
  ELSE LET r == _validate_value(items[i], item_type, field_name)
       IN IF r.raised THEN r
          ELSE ValidateItems_NoIndex(items, item_type, field_name, i + 1,
                                     Append(acc, r.value))

\* lines 211-214: the list comprehension, index i is 1-based here
ValidateItems(items, item_type, field_name, i, acc) ==
  IF i > Len(items) THEN Return(L(acc))
  ELSE LET r == _validate_value(items[i], item_type,
                  field_name \o "[" \o ToString(i - 1) \o "]")
       IN IF r.raised THEN r
          ELSE ValidateItems(items, item_type, field_name, i + 1,
                             Append(acc, r.value))

\* lines 224-232: the loop over value.items()
ValidateEntries(entries, value_type, field_name, i, acc) ==
  IF i > Len(entries) THEN Return(D(acc))
  ELSE LET key == entries[i].key
           path == field_name \o "." \o PyFormat(key)
       IN IF ~IsInstance(key, "str")
          THEN Raise(TypeError_("expected string key, got " \o PyTypeName(key),
                                Some(path)))
          ELSE LET r == _validate_value(entries[i].val, value_type, path)
               IN IF r.raised THEN r
                  ELSE ValidateEntries(entries, value_type, field_name, i + 1,
                                       Append(acc, E(key, r.value)))

\* ValidatePrimitive without the bool test of the int branch: a bool passes
\* isinstance(value, int)
ValidatePrimitive_BoolAsInt(value, type_hint, field_name) ==
  LET mismatch == Raise(TypeError_("expected " \o type_hint.t \o ", got "
                                     \o PyTypeName(value), Some(field_name)))
  IN CASE type_hint = TInt ->
            IF ~IsInstance(value, "int") THEN mismatch ELSE Return(value)
       [] type_hint = TFloat ->
            IF IsInstance(value, "bool")
            THEN Raise(TypeError_("expected float, got bool", Some(field_name)))
            ELSE IF IsInstance(value, "int") THEN Return(F(value.v))
            ELSE IF ~IsInstance(value, "float") THEN mismatch
            ELSE Return(value)
       [] type_hint = TStr ->
            IF ~IsInstance(value, "str") THEN mismatch ELSE Return(value)
       [] type_hint = TBool ->
            IF ~IsInstance(value, "bool") THEN mismatch ELSE Return(value)
       [] OTHER -> Return(value)

\* ValidatePrimitive with the `not` of the float test dropped: an int is
\* widened, a float is refused
ValidatePrimitive_FloatRefused(value, type_hint, field_name) ==
  LET mismatch == Raise(TypeError_("expected " \o type_hint.t \o ", got "
                                     \o PyTypeName(value), Some(field_name)))
  IN CASE type_hint = TInt ->
            IF IsInstance(value, "bool")
            THEN Raise(TypeError_("expected int, got bool", Some(field_name)))
            ELSE IF ~IsInstance(value, "int") THEN mismatch
            ELSE Return(value)
       [] type_hint = TFloat ->
            IF IsInstance(value, "bool")
            THEN Raise(TypeError_("expected float, got bool", Some(field_name)))
            ELSE IF IsInstance(value, "int") THEN Return(F(value.v))
            ELSE IF IsInstance(value, "float") THEN mismatch
            ELSE Return(value)
       [] type_hint = TStr ->
            IF ~IsInstance(value, "str") THEN mismatch ELSE Return(value)
       [] type_hint = TBool ->
            IF ~IsInstance(value, "bool") THEN mismatch ELSE Return(value)
       [] OTHER -> Return(value)

ValidatePrimitive(value, type_hint, field_name) ==
  LET mismatch == Raise(TypeError_("expected " \o type_hint.t \o ", got "
                                     \o PyTypeName(value), Some(field_name)))
  IN CASE type_hint = TInt ->
            IF IsInstance(value, "bool")
            THEN Raise(TypeError_("expected int, got bool", Some(field_name)))
            ELSE IF ~IsInstance(value, "int") THEN mismatch
            ELSE Return(value)
       [] type_hint = TFloat ->
            IF IsInstance(value, "bool")
            THEN Raise(TypeError_("expected float, got bool", Some(field_name)))
            ELSE IF IsInstance(value, "int") THEN Return(F(value.v))
            ELSE IF ~IsInstance(value, "float") THEN mismatch
            ELSE Return(value)
       [] type_hint = TStr ->
            IF ~IsInstance(value, "str") THEN mismatch ELSE Return(value)
       [] type_hint = TBool ->
            IF ~IsInstance(value, "bool") THEN mismatch ELSE Return(value)
       [] OTHER -> Return(value)

_validate_value(value, type_hint, field_name) ==
  LET origin == get_origin(type_hint)
      args == get_args(type_hint)
  IN IF value = Null
     THEN IF type_hint = TNone THEN Return(Null)
          ELSE IF origin = "Union" /\ InArgs(TNone, args) THEN Return(Null)
          ELSE Raise(TypeError_("expected " \o PyStr(type_hint) \o ", got None",
                                Some(field_name)))
     ELSE IF type_hint = TAny THEN Return(value)
     ELSE IF origin = "Union" THEN ValidateUnion(value, args, field_name, 1)
     ELSE IF origin = "list"
          THEN IF ~IsInstance(value, "list")
               THEN Raise(TypeError_("expected list, got " \o PyTypeName(value),
                                     Some(field_name)))
               ELSE IF Len(args) > 0
                    THEN ValidateItems(value.v, args[1], field_name, 1, <<>>)
                    ELSE Return(value)
     ELSE IF origin = "dict"
          THEN IF ~IsInstance(value, "dict")
               THEN Raise(TypeError_("expected dict, got " \o PyTypeName(value),
                                     Some(field_name)))
               ELSE IF Len(args) > 0
                    THEN ValidateEntries(value.v, args[2], field_name, 1, <<>>)
                    ELSE Return(value)
     ELSE ValidatePrimitive(value, type_hint, field_name)

\* _validate_return_value
_validate_return_value(value, type_hint) ==
  IF type_hint = TNone THEN Return(value)
  ELSE _validate_value(value, type_hint, "return")

(***************************************************************************)
(* Registry                                                                *)
(***************************************************************************)
\* FunctionInfo; type_hints is the ordered dict of (parameter, hint), func
\* names the body of the callable
FunctionInfo(name, func, type_hints, return_type) ==
  [name |-> name, func |-> func, type_hints |-> type_hints,
   return_type |-> return_type]

Param(name, type_hint) == [name |-> name, type |-> type_hint]

\* Registry.list_functions: the keys of _functions, in insertion order
list_functions(reg) == [i \in 1..Len(reg) |-> reg[i].name]

HasFunction(reg, name) == \E i \in 1..Len(reg) : reg[i].name = name

\* Registry.get: None when the name is absent
RegistryGet(reg, name) ==
  IF HasFunction(reg, name)
  THEN Some(reg[CHOOSE i \in 1..Len(reg) : reg[i].name = name])
  ELSE None

\* register that drops the entry a name already has and appends the new one
RegistryRegister_MovedToEnd(reg, name, func, type_hints, return_type) ==
  Append(SelectSeq(reg, LAMBDA info : info.name # name),
         FunctionInfo(name, func, type_hints, return_type))

\* Registry.register: self._functions[name] = FunctionInfo(...); assigning to
\* a key a dict already holds replaces the value and keeps the key's position
RegistryRegister(reg, name, func, type_hints, return_type) ==
  LET info == FunctionInfo(name, func, type_hints, return_type)
  IN IF HasFunction(reg, name)
     THEN [i \in 1..Len(reg) |-> IF reg[i].name = name THEN info ELSE reg[i]]
     ELSE Append(reg, info)

RECURSIVE _is_json_serializable_type(_)
\* _is_json_serializable_type that takes every List for serializable
\* without looking at its item type
_is_json_serializable_type_ListUnchecked(type_hint) ==
  LET origin == get_origin(type_hint)
      args == get_args(type_hint)
  IN IF type_hint = TNone THEN TRUE
     ELSE IF type_hint \in {TInt, TFloat, TStr, TBool, TNone} THEN TRUE
     ELSE IF type_hint = TAny THEN TRUE
     ELSE IF origin = "list" THEN TRUE
     ELSE IF origin = "dict"
          THEN IF Len(args) = 0 THEN TRUE
               ELSE IF args[1] # TStr THEN FALSE
               ELSE _is_json_serializable_type(args[2])
     ELSE IF origin = "Union"
          THEN \A i \in 1..Len(args) : _is_json_serializable_type(args[i])
     ELSE FALSE

_is_json_serializable_type(type_hint) ==
  LET origin == get_origin(type_hint)
      args == get_args(type_hint)
  IN IF type_hint = TNone THEN TRUE
     ELSE IF type_hint \in {TInt, TFloat, TStr, TBool, TNone} THEN TRUE
     ELSE IF type_hint = TAny THEN TRUE
     ELSE IF origin = "list"
          THEN IF Len(args) = 0 THEN TRUE
               ELSE _is_json_serializable_type(args[1])
     ELSE IF origin = "dict"
          THEN IF Len(args) = 0 THEN TRUE
               ELSE IF args[1] # TStr THEN FALSE
               ELSE _is_json_serializable_type(args[2])
     ELSE IF origin = "Union"
          THEN \A i \in 1..Len(args) : _is_json_serializable_type(args[i])
     ELSE FALSE

RECURSIVE _type_to_string(_)
\* _type_to_string that prints the item of a List by its bare name instead
\* of by recursion
_type_to_string_ItemByName(type_hint) ==
  LET origin == get_origin(type_hint)
      args == get_args(type_hint)
      non_none_args == SelectSeq(args, LAMBDA a : a # TNone)
      arg_strs == [i \in 1..Len(args) |-> _type_to_string(args[i])]
  IN IF type_hint = TNone THEN "None"
     ELSE IF type_hint = TAny THEN "Any"
     ELSE IF type_hint \in {TInt, TFloat, TStr, TBool} THEN type_hint.t
     ELSE IF origin = "list"
          THEN IF Len(args) > 0
               THEN "List[" \o args[1].t \o "]"
               ELSE "List"
     ELSE IF origin = "dict"
          THEN IF Len(args) > 0
               THEN "Dict[" \o _type_to_string(args[1]) \o ", "
                      \o _type_to_string(args[2]) \o "]"
               ELSE "Dict"
     ELSE IF origin = "Union"
          THEN IF Len(non_none_args) = 1 /\ InArgs(TNone, args)
               THEN "Optional[" \o _type_to_string(non_none_args[1]) \o "]"
               ELSE "Union[" \o JoinStr(arg_strs, ", ") \o "]"
     ELSE PyStr(type_hint)

_type_to_string(type_hint) ==
  LET origin == get_origin(type_hint)
      args == get_args(type_hint)
      non_none_args == SelectSeq(args, LAMBDA a : a # TNone)
      arg_strs == [i \in 1..Len(args) |-> _type_to_string(args[i])]
  IN IF type_hint = TNone THEN "None"
     ELSE IF type_hint = TAny THEN "Any"
     ELSE IF type_hint \in {TInt, TFloat, TStr, TBool} THEN type_hint.t
     ELSE IF origin = "list"
          THEN IF Len(args) > 0
               THEN "List[" \o _type_to_string(args[1]) \o "]"
               ELSE "List"
     ELSE IF origin = "dict"
          THEN IF Len(args) > 0
               THEN "Dict[" \o _type_to_string(args[1]) \o ", "
                      \o _type_to_string(args[2]) \o "]"
               ELSE "Dict"
     ELSE IF origin = "Union"
          THEN IF Len(non_none_args) = 1 /\ InArgs(TNone, args)
               THEN "Optional[" \o _type_to_string(non_none_args[1]) \o "]"
               ELSE "Union[" \o JoinStr(arg_strs, ", ") \o "]"
     ELSE PyStr(type_hint)

\* _introspect: one entry per name list_functions returns
_introspect(reg) ==
  LET entry(info) ==
        D(<<E(S("name"), S(info.name)),
            E(S("parameters"),
              D([i \in 1..Len(info.type_hints) |->
                   E(S(info.type_hints[i].name),
                     S(_type_to_string(info.type_hints[i].type)))])),
            E(S("return_type"), S(_type_to_string(info.return_type)))>>)
  IN D(<<E(S("functions"), L([i \in 1..Len(reg) |-> entry(reg[i])]))>>)

\* a decorated function as the author wrote it: its name, its annotated
\* parameters in order, its return annotation (None when it has none) and
\* its body
Declaration(name, params, return_annotation, body) ==
  [name |-> name, params |-> params, ret |-> return_annotation, body |-> body]

\* export, lines 285-308: the result is the registry after the decorator ran,
\* or the ValueError it raised
export(reg, decl) ==
  LET type_hints == decl.params
      return_type == IF decl.ret = None THEN TAny ELSE decl.ret[1]
      bad == {i \in 1..Len(type_hints) :
                ~_is_json_serializable_type(type_hints[i].type)}
  IN IF bad # {}
     THEN LET i == CHOOSE j \in bad : \A m \in bad : j <= m
          IN Raise(Builtin("ValueError",
               "Parameter '" \o type_hints[i].name \o "' of function '"
                 \o decl.name \o "' has non-JSON-serializable type: "
                 \o PyStr(type_hints[i].type)))
     ELSE IF ~_is_json_serializable_type(return_type)
     THEN Raise(Builtin("ValueError",
            "Return type of function '" \o decl.name
              \o "' is not JSON-serializable: " \o PyStr(return_type)))
     ELSE Return(RegistryRegister(reg, decl.name, decl.body, type_hints,
                                  return_type))

\* _register_introspect
_register_introspect(reg) ==
  RegistryRegister(reg, "__introspect__", "_introspect", <<>>,
                   TDict(TStr, TAny))

(***************************************************************************)
(* _dispatch                                                               *)
(***************************************************************************)
\* code points of the characters that occur in argument names, ascending
CodePoints == "0123456789ABCDEFGHIJKLMNOPQRSTUVWXYZ_abcdefghijklmnopqrstuvwxyz"

\* ord(c) up to an order-preserving renumbering
Ord(c) == CHOOSE i \in 1..Len(CodePoints) : SubSeq(CodePoints, i, i) = c

RECURSIVE StrLess(_, _)
\* s < t for two str: lexicographic by code point
StrLess(s, t) ==
  IF Len(t) = 0 THEN FALSE
  ELSE IF Len(s) = 0 THEN TRUE
  ELSE LET a == Ord(SubSeq(s, 1, 1))
           b == Ord(SubSeq(t, 1, 1))
       IN IF a # b THEN a < b
          ELSE StrLess(SubSeq(s, 2, Len(s)), SubSeq(t, 2, Len(t)))

RECURSIVE sorted(_)
\* sorted(strs) for a set of str
sorted(strs) ==
  IF strs = {} THEN <<>>
  ELSE LET least == CHOOSE x \in strs : \A y \in strs \ {x} : StrLess(x, y)
       IN <<least>> \o sorted(strs \ {least})

\* lines 338-343: the function name, or the exception the checks raise
CheckRequest(req) ==
  LET present == PyIn(S("function"), req)
  IN IF present = "raise"
     THEN Raise(Builtin("TypeError", "argument of type '" \o PyTypeName(req)
                                       \o "' is not iterable"))
     ELSE IF present = "no"
     THEN Raise(ValidationError("missing 'function' field in request", None))
     ELSE IF req.k # "dict"
     THEN Raise(Builtin("TypeError",
            IF req.k = "str" THEN "string indices must be integers, not 'str'"
            ELSE "list indices must be integers or slices, not str"))
     ELSE LET function_name == DictGet(req, S("function"))
          IN IF ~IsInstance(function_name, "str")
             THEN Raise(ValidationError("'function' must be a string", None))
             ELSE Return(function_name.v)

\* lines 346-348
LookupFunction(reg, function_name) ==
  LET info == RegistryGet(reg, function_name)
  IN IF info = None THEN Raise(FunctionNotFoundError(function_name))
     ELSE Return(info[1])

\* line 361: the test that lets an absent parameter default to None
DefaultsToNone(param_type) ==
  get_origin(param_type) = "Union" /\ InArgs(TNone, get_args(param_type))

RECURSIVE ValidateParams(_, _, _, _)
\* lines 356-368: the loop over func_info.type_hints.items()
ValidateParams(type_hints, args, i, validated) ==
  IF i > Len(type_hints) THEN Return(D(validated))
  ELSE LET param_name == type_hints[i].name
           param_type == type_hints[i].type
       IN IF ~DictHas(args, S(param_name))
          THEN IF DefaultsToNone(param_type)
               THEN ValidateParams(type_hints, args, i + 1,
                                   Append(validated, E(S(param_name), Null)))
               ELSE Raise(ValidationError("missing required argument '"
                                            \o param_name \o "'",
                                          Some(param_name)))
          ELSE LET r == _validate_value(DictGet(args, S(param_name)),
                                        param_type, param_name)
               IN IF r.raised THEN r
                  ELSE ValidateParams(type_hints, args, i + 1,
                         Append(validated, E(S(param_name), r.value)))

\* lines 370-375
CheckUnexpected(type_hints, args) ==
  LET expected_params == {type_hints[i].name : i \in 1..Len(type_hints)}
      provided_params == {args.v[i].key.v : i \in 1..Len(args.v)}
      unexpected == provided_params \ expected_params
  IN IF unexpected # {}
     THEN Raise(ValidationError("unexpected argument(s): "
                                  \o JoinStr(sorted(unexpected), ", "), None))
     ELSE Return(Null)

\* ValidateArguments without the test for unexpected arguments
ValidateArguments_UnexpectedIgnored(info, req) ==
  LET args == DictGetDefault(req, S("args"), D(<<>>))
  IN IF ~IsInstance(args, "dict")
     THEN Raise(ValidationError("'args' must be an object", None))
     ELSE ValidateParams(info.type_hints, args, 1, <<>>)

\* lines 351-375: the keyword arguments of the call, or the exception
ValidateArguments(info, req) ==
  LET args == DictGetDefault(req, S("args"), D(<<>>))
  IN IF ~IsInstance(args, "dict")
     THEN Raise(ValidationError("'args' must be an object", None))
     ELSE LET r == ValidateParams(info.type_hints, args, 1, <<>>)
          IN IF r.raised THEN r
             ELSE LET u == CheckUnexpected(info.type_hints, args)
                  IN IF u.raised THEN u ELSE r

(***************************************************************************)
(* Function bodies                                                         *)
(***************************************************************************)
\* what a body the bridge knows nothing about can do: return any object or
\* raise any exception
ArbitraryOutcomes ==
  { Return(Null), Return(I(5)), Return(F(2)), Return(S("s")), Return(B(TRUE)),
    Return(L(<<I(1)>>)), Return(L(<<I(1), S("two")>>)),
    Return(D(<<E(S("k"), Null)>>)), Return(D(<<E(I(1), S("v"))>>)),
    Return(Obj),
    Raise(ValidationError("intentional error", Some("test"))),
    Raise(TypeError_("bad shape", Some("x"))),
    Raise(GoRunPyError("boom", "Error", None)),
    Raise(Builtin("RuntimeError", "unexpected crash")),
    Raise(SystemExit(0)), Raise(SystemExit(3)) }

\* func_info.func(**validated_args): the outcomes of the call
Call(func, kwargs, reg) ==
  CASE func = "sum" ->
         {Return(I(DictGet(kwargs, S("a")).v + DictGet(kwargs, S("b")).v))}
    [] func = "divide" ->
         \* the quotient is exact for the dividends the requests carry
         IF DictGet(kwargs, S("b")).v = 0
         THEN {Raise(ValidationError("division by zero", Some("b")))}
         ELSE {Return(F(DictGet(kwargs, S("a")).v
                          \div DictGet(kwargs, S("b")).v))}
    [] func = "greet" ->
         LET given == DictGet(kwargs, S("greeting"))
             greeting == IF given = Null THEN "Hello" ELSE given.v
         IN {Return(S(greeting \o ", " \o DictGet(kwargs, S("name")).v \o "!"))}
    [] func = "_introspect" -> {Return(_introspect(reg))}
    [] OTHER -> ArbitraryOutcomes

(***************************************************************************)
(* json                                                                    *)
(***************************************************************************)
\* the text on stdin: blank, not JSON, or the JSON text of a document
Blank == [form |-> "blank", doc |-> Null]
Malformed == [form |-> "malformed", doc |-> Null]
Json(doc) == [form |-> "json", doc |-> doc]

\* json.loads
json_loads(text) ==
  IF text.form = "json" THEN Return(text.doc)
  ELSE Raise(Builtin("JSONDecodeError",
                     "Expecting value: line 1 column 1 (char 0)"))

RECURSIVE Encodable(_)
\* whether json.dumps encodes the object; it raises TypeError on any other
Encodable(value) ==
  CASE value.k = "list" -> \A i \in 1..Len(value.v) : Encodable(value.v[i])
    [] value.k = "dict" ->
         \A i \in 1..Len(value.v) :
           /\ value.v[i].key.k \in {"str", "int", "float", "bool", "null"}
           /\ Encodable(value.v[i].val)
    [] value.k = "set" -> FALSE
    [] OTHER -> TRUE

\* the JSON text of a dict key
EncodeKey(key) ==
  CASE key.k = "bool" -> S(IF key.v THEN "true" ELSE "false")
    [] key.k = "null" -> S("null")
    [] OTHER -> S(PyFormat(key))

RECURSIVE Encode(_)
\* the document json.dumps writes for an encodable object
Encode(value) ==
  CASE value.k = "list" -> L([i \in 1..Len(value.v) |-> Encode(value.v[i])])
    [] value.k = "dict" ->
         D([i \in 1..Len(value.v) |->
              E(EncodeKey(value.v[i].key), Encode(value.v[i].val))])
    [] OTHER -> value

_make_success_response(res) == [ok |-> TRUE, result |-> [value |-> res]]
_make_error_response(error) == [ok |-> FALSE, error |-> to_dict(error)]

\* ExitCode
ExitCodeValue(code) ==
  CASE code = "SUCCESS" -> 0
    [] code = "HANDLED_ERROR" -> 1
    [] code = "CRASH" -> 2

(***************************************************************************)
(* Inputs: the functions a worker module declares, the texts on stdin      *)
(***************************************************************************)
DeclSum ==
  Declaration("sum", <<Param("a", TInt), Param("b", TInt)>>, Some(TInt), "sum")
DeclDivide ==
  Declaration("divide", <<Param("a", TFloat), Param("b", TFloat)>>,
              Some(TFloat), "divide")
DeclGreet ==
  Declaration("greet", <<Param("name", TStr),
                         Param("greeting", TOptional(TStr))>>,
              Some(TStr), "greet")
\* def probe(x: Any): no return annotation
DeclProbe == Declaration("probe", <<Param("x", TAny)>>, None, "arbitrary")
\* def store(x: Any, b: int) -> None
DeclStore ==
  Declaration("store", <<Param("x", TAny), Param("b", TInt)>>, Some(TNone),
              "arbitrary")
\* def count(items: List[int], opts: Dict[str, Any]) -> List[int]
DeclCount ==
  Declaration("count", <<Param("items", TList(TInt)),
                         Param("opts", TDict(TStr, TAny))>>,
              Some(TList(TInt)), "arbitrary")
\* a second function named sum
DeclSumAgain ==
  Declaration("sum", <<Param("a", TStr)>>, Some(TStr), "arbitrary")
\* def lookup(table: Dict[int, str]) -> str
DeclLookup ==
  Declaration("lookup", <<Param("table", TDict(TInt, TStr))>>, Some(TStr),
              "arbitrary")

\* def rows(rows: List[Dict[int, str]]) -> int: a non-string key type
\* inside a List
DeclRows ==
  Declaration("rows", <<Param("rows", TList(TDict(TInt, TStr)))>>, Some(TInt),
              "arbitrary")

\* def blob(n: int) -> Optional[bytes]: a non-JSON class inside a Union
DeclBlob ==
  Declaration("blob", <<Param("n", TInt)>>, Some(TOptional(TBytes)),
              "arbitrary")

\* def tags(tags: Dict[str, List[bytes]], n: int) -> int: a non-JSON class
\* two levels down
DeclTags ==
  Declaration("tags", <<Param("tags", TDict(TStr, TList(TBytes))),
                        Param("n", TInt)>>, Some(TInt), "arbitrary")

\* def fetch_all(Key: str, limit: Optional[int]) -> List[str]: a parameter
\* name the generator changes for Go
DeclFetch ==
  Declaration("fetch_all", <<Param("Key", TStr),
                             Param("limit", TOptional(TInt))>>,
              Some(TList(TStr)), "arbitrary")

\* def __introspect__() -> int: a function of the module under the name
\* main registers afterwards
DeclReserved == Declaration("__introspect__", <<>>, Some(TInt), "arbitrary")

\* def fetch_All() -> int: another function name of the same words
DeclFetchCamel == Declaration("fetch_All", <<>>, Some(TInt), "arbitrary")

Declarations ==
  {DeclSum, DeclDivide, DeclGreet, DeclProbe, DeclStore, DeclCount,
   DeclSumAgain, DeclLookup, DeclRows, DeclBlob, DeclTags, DeclFetch,
   DeclReserved, DeclFetchCamel}

Req(function, args) == D(<<E(S("function"), S(function)), E(S("args"), args)>>)

Payloads ==
  { Blank, Malformed,
    \* documents that are not a request object
    Json(I(5)), Json(F(2)), Json(Null), Json(B(TRUE)), Json(S("hello")),
    Json(S("function")), Json(L(<<>>)), Json(L(<<S("function")>>)),
    Json(D(<<>>)), Json(D(<<E(S("args"), D(<<>>))>>)),
    Json(D(<<E(S("function"), I(1))>>)),
    Json(D(<<E(S("function"), Null), E(S("args"), D(<<>>))>>)),
    \* a name no declaration uses
    Json(D(<<E(S("function"), S("nonexistent"))>>)),
    Json(Req("nonexistent", D(<<>>))),
    Json(Req("nonexistent", I(3))),
    Json(Req("nonexistent", D(<<E(S("x"), I(1))>>))),
    \* sum
    Json(Req("sum", D(<<E(S("a"), I(1)), E(S("b"), I(2))>>))),
    Json(Req("sum", D(<<E(S("b"), I(2)), E(S("a"), I(1))>>))),
    Json(Req("sum", D(<<E(S("a"), I(1))>>))),
    Json(Req("sum", D(<<E(S("b"), I(2))>>))),
    Json(Req("sum", D(<<>>))),
    Json(D(<<E(S("function"), S("sum"))>>)),
    Json(Req("sum", L(<<I(1), I(2)>>))),
    Json(Req("sum", D(<<E(S("a"), S("not an int")), E(S("b"), I(2))>>))),
    Json(Req("sum", D(<<E(S("a"), S("not an int"))>>))),
    Json(Req("sum", D(<<E(S("a"), B(TRUE)), E(S("b"), I(2))>>))),
    Json(Req("sum", D(<<E(S("a"), I(1)), E(S("b"), I(2)),
                        E(S("unexpected"), I(2))>>))),
    Json(Req("sum", D(<<E(S("zeta"), I(0)), E(S("a"), I(1)),
                        E(S("b"), I(2)), E(S("extra"), Null)>>))),
    Json(Req("sum", D(<<E(S("a"), S("hello"))>>))),
    Json(Req("sum", D(<<E(S("a"), S("x")), E(S("extra"), I(1))>>))),
    \* divide
    Json(Req("divide", D(<<E(S("a"), I(6)), E(S("b"), I(3))>>))),
    Json(Req("divide", D(<<E(S("a"), F(1)), E(S("b"), I(0))>>))),
    \* greet
    Json(Req("greet", D(<<E(S("name"), S("Bob"))>>))),
    Json(Req("greet", D(<<E(S("name"), S("Bob")), E(S("greeting"), Null)>>))),
    Json(Req("greet", D(<<E(S("name"), S("Bob")),
                          E(S("greeting"), S("Hi"))>>))),
    Json(Req("greet", D(<<E(S("greeting"), I(1))>>))),
    \* probe
    Json(Req("probe", D(<<E(S("x"), I(1))>>))),
    Json(Req("probe", D(<<E(S("x"), Null)>>))),
    Json(Req("probe", D(<<>>))),
    Json(Req("probe", D(<<E(S("x"), Null), E(S("extra"), I(1))>>))),
    Json(Req("probe", D(<<E(S("x"), L(<<B(FALSE)>>)), E(S("y"), I(1))>>))),
    \* store
    Json(Req("store", D(<<E(S("x"), S("v")), E(S("b"), I(2))>>))),
    Json(Req("store", D(<<E(S("x"), Null)>>))),
    Json(Req("store", D(<<E(S("x"), Null), E(S("b"), I(2))>>))),
    Json(Req("store", D(<<E(S("x"), I(1))>>))),
    Json(Req("store", D(<<E(S("b"), I(2))>>))),
    \* count
    Json(Req("count", D(<<E(S("items"), L(<<I(1), S("two"), I(3)>>)),
                          E(S("opts"), D(<<>>))>>))),
    Json(Req("count", D(<<E(S("items"), L(<<I(1), I(2)>>)),
                          E(S("opts"), D(<<E(S("k"), Null)>>))>>))),
    Json(Req("count", D(<<E(S("items"), L(<<>>)),
                          E(S("opts"), D(<<E(S("k"), I(1))>>))>>))),
    \* the reserved name
    Json(Req("__introspect__", D(<<>>))),
    Json(D(<<E(S("function"), S("__introspect__"))>>)),
    Json(Req("__introspect__", D(<<E(S("x"), I(1))>>))) }

\* traceback.format_exc()
Traceback == "Traceback (most recent call last): ..."

(***************************************************************************)
(* The worker process                                                      *)
(***************************************************************************)
Init ==
  /\ registry = <<>>
  /\ pc = "Importing"
  /\ raw_input = None
  /\ request = None
  /\ func_info = None
  /\ validated_args = None
  /\ result = None
  /\ exc = None
  /\ stdout = <<>>
  /\ stderr = <<>>
  /\ exit_code = "SUCCESS"
  /\ exit_status = -1
  /\ calls = <<>>
  /\ vcall = None

\* an @export decorator runs while the worker module is imported; the
\* ValueError it raises ends the process before main() is entered
Export(decl) ==
  /\ pc = "Importing"
  /\ Len(registry) < MaxExports
  /\ LET r == export(registry, decl)
     IN IF r.raised
        THEN /\ pc' = "StartupFailed"
             /\ exc' = Some(r.exc)
             /\ exit_status' = 1
             /\ UNCHANGED registry
        ELSE /\ registry' = r.value
             /\ UNCHANGED <<pc, exc, exit_status>>
  /\ UNCHANGED <<raw_input, request, func_info, validated_args, result,
                 stdout, stderr, exit_code, calls, vcall>>

\* main, lines 458-460
EnterMain ==
  /\ pc = "Importing"
  /\ registry' = _register_introspect(registry)
  /\ exit_code' = "SUCCESS"
  /\ pc' = "AwaitingRequest"
  /\ UNCHANGED <<raw_input, request, func_info, validated_args, result, exc,
                 stdout, stderr, exit_status, calls, vcall>>

\* main, line 464: sys.stdin.read()
ReadRequest(text) ==
  /\ pc = "AwaitingRequest"
  /\ raw_input' = Some(text)
  /\ pc' = "Parsing"
  /\ UNCHANGED <<registry, request, func_info, validated_args, result, exc,
                 stdout, stderr, exit_code, exit_status, calls, vcall>>

\* main, lines 465-471, and _dispatch, lines 338-343
ParseRequest ==
  /\ pc = "Parsing"
  /\ LET text == raw_input[1]
         loaded == json_loads(text)
         checked == CheckRequest(loaded.value)
     IN IF text.form = "blank"
        THEN /\ exc' = Some(ValidationError("empty input", None))
             /\ pc' = "Raised"
             /\ UNCHANGED request
        ELSE IF loaded.raised
        THEN /\ exc' = Some(ValidationError("invalid JSON: "
                                              \o loaded.exc.message, None))
             /\ pc' = "Raised"
             /\ UNCHANGED request
        ELSE /\ request' = Some(loaded.value)
             /\ IF checked.raised
                THEN exc' = Some(checked.exc) /\ pc' = "Raised"
                ELSE pc' = "ResolvingFunction" /\ UNCHANGED exc
  /\ UNCHANGED <<registry, raw_input, func_info, validated_args, result,
                 stdout, stderr, exit_code, exit_status, calls, vcall>>

\* ResolveFunction with the shape of args examined before the lookup
ResolveFunction_ArgsFirst ==
  /\ pc = "ResolvingFunction"
  /\ LET args == DictGetDefault(request[1], S("args"), D(<<>>))
         r == LookupFunction(registry, CheckRequest(request[1]).value)
     IN IF ~IsInstance(args, "dict")
        THEN /\ exc' = Some(ValidationError("'args' must be an object", None))
             /\ pc' = "Raised"
             /\ UNCHANGED func_info
        ELSE IF r.raised
        THEN exc' = Some(r.exc) /\ pc' = "Raised" /\ UNCHANGED func_info
        ELSE func_info' = Some(r.value) /\ pc' = "ValidatingArgs"
             /\ UNCHANGED exc
  /\ UNCHANGED <<registry, raw_input, request, validated_args, result,
                 stdout, stderr, exit_code, exit_status, calls, vcall>>

\* _dispatch, lines 346-348
ResolveFunction ==
  /\ pc = "ResolvingFunction"
  /\ LET r == LookupFunction(registry, CheckRequest(request[1]).value)
     IN IF r.raised
        THEN exc' = Some(r.exc) /\ pc' = "Raised" /\ UNCHANGED func_info
        ELSE func_info' = Some(r.value) /\ pc' = "ValidatingArgs"
             /\ UNCHANGED exc
  /\ UNCHANGED <<registry, raw_input, request, validated_args, result,
                 stdout, stderr, exit_code, exit_status, calls, vcall>>

\* _dispatch, lines 351-375
ValidateArgs ==
  /\ pc = "ValidatingArgs"
  /\ LET r == ValidateArguments(func_info[1], request[1])
     IN IF r.raised
        THEN exc' = Some(r.exc) /\ pc' = "Raised" /\ UNCHANGED validated_args
        ELSE validated_args' = Some(r.value) /\ pc' = "Invoking"
             /\ UNCHANGED exc
  /\ UNCHANGED <<registry, raw_input, request, func_info, result,
                 stdout, stderr, exit_code, exit_status, calls, vcall>>

\* _dispatch, line 378; calls is the history of the invocations of exported
\* callables: the name, the keyword arguments and how the body ended
Invoke ==
  /\ pc = "Invoking"
  /\ \E r \in Call(func_info[1].func, validated_args[1], registry) :
       /\ calls' = Append(calls, [func |-> func_info[1].name,
                                  kwargs |-> validated_args[1],
                                  outcome |-> r])
       /\ IF r.raised
          THEN exc' = Some(r.exc) /\ pc' = "Raised" /\ UNCHANGED result
          ELSE result' = Some(r.value) /\ pc' = "ValidatingReturn"
               /\ UNCHANGED exc
  /\ UNCHANGED <<registry, raw_input, request, func_info, validated_args,
                 stdout, stderr, exit_code, exit_status, vcall>>

\* _dispatch, line 381
ValidateReturn ==
  /\ pc = "ValidatingReturn"
  /\ LET r == _validate_return_value(result[1], func_info[1].return_type)
     IN IF r.raised
        THEN exc' = Some(r.exc) /\ pc' = "Raised" /\ UNCHANGED result
        ELSE result' = Some(r.value) /\ pc' = "Responding" /\ UNCHANGED exc
  /\ UNCHANGED <<registry, raw_input, request, func_info, validated_args,
                 stdout, stderr, exit_code, exit_status, calls, vcall>>

\* main, lines 477-479: json.dumps raises before anything is written
WriteSuccess ==
  /\ pc = "Responding"
  /\ IF Encodable(result[1])
     THEN /\ stdout' = Append(stdout,
                         _make_success_response(Encode(result[1])))
          /\ pc' = "Exiting"
          /\ UNCHANGED exc
     ELSE /\ exc' = Some(Builtin("TypeError", "Object of type "
                           \o "set is not JSON serializable"))
          /\ pc' = "Raised"
          /\ UNCHANGED stdout
  /\ UNCHANGED <<registry, raw_input, request, func_info, validated_args,
                 result, stderr, exit_code, exit_status, calls, vcall>>

\* main, lines 481-497: the except clauses; an exception that neither
\* clause catches leaves main() and ends the process with SystemExit's code
HandleError ==
  /\ pc = "Raised"
  /\ LET e == exc[1]
     IN IF IsGoRunPyError(e)
        THEN /\ exit_code' = "HANDLED_ERROR"
             /\ stderr' = Append(stderr, _make_error_response(e))
             /\ pc' = "Exiting"
             /\ UNCHANGED exit_status
        ELSE IF IsException(e)
        THEN /\ exit_code' = "CRASH"
             /\ stderr' = Append(stderr, _make_error_response(
                    GoRunPyError(e.cls \o ": " \o e.message \o "\n"
                                   \o Traceback, "RuntimeError", None)))
             /\ pc' = "Exiting"
             /\ UNCHANGED exit_status
        ELSE /\ exit_status' = e.code
             /\ pc' = "Exited"
             /\ UNCHANGED <<exit_code, stderr>>
  /\ UNCHANGED <<registry, raw_input, request, func_info, validated_args,
                 result, exc, stdout, calls, vcall>>

\* main, line 499
Exit ==
  /\ pc = "Exiting"
  /\ exit_status' = ExitCodeValue(exit_code)
  /\ pc' = "Exited"
  /\ UNCHANGED <<registry, raw_input, request, func_info, validated_args,
                 result, exc, stdout, stderr, exit_code, calls, vcall>>

Next ==
  \/ \E decl \in Declarations : Export(decl)
  \/ EnterMain
  \/ \E text \in Payloads : ReadRequest(text)
  \/ ParseRequest
  \/ ResolveFunction
  \/ ValidateArgs
  \/ Invoke
  \/ ValidateReturn
  \/ WriteSuccess
  \/ HandleError
  \/ Exit

Spec == Init /\ [][Next]_vars

(***************************************************************************)
(* The validation engine applied on its own                                *)
(***************************************************************************)
EngineValues ==
  { Null, B(TRUE), B(FALSE), I(0), I(3), F(3), S("two"), L(<<>>),
    L(<<I(1), S("two"), I(3)>>), L(<<I(1), I(2)>>), L(<<Null>>), D(<<>>),
    D(<<E(S("k"), Null)>>), D(<<E(S("a"), I(1)), E(S("b"), I(2))>>),
    D(<<E(S("a"), I(1)), E(I(1), S("v"))>>),
    D(<<E(S("k"), L(<<I(1), S("two")>>))>>),
    L(<<D(<<E(S("a"), I(1))>>), D(<<E(S("b"), B(TRUE))>>)>>), Obj }

EngineHints ==
  { TInt, TFloat, TStr, TBool, TNone, TAny, TBytes,
    TListBare, TList(TInt), TList(TAny), TList(TOptional(TInt)),
    TDictBare, TDict(TStr, TInt), TDict(TStr, TAny),
    TDict(TStr, TList(TInt)), TList(TDict(TStr, TInt)),
    TOptional(TDict(TStr, TInt)),
    TOptional(TStr), TOptional(TAny), TOptional(TList(TInt)),
    TUnion(<<TInt, TStr>>), TUnion(<<TFloat, TInt>>),
    TUnion(<<TInt, TFloat>>), TUnion(<<TInt, TNone, TStr>>) }

EngineFields == {"items", "data"}

InitEngine ==
  /\ registry = <<>>
  /\ pc = "Engine"
  /\ raw_input = None
  /\ request = None
  /\ func_info = None
  /\ validated_args = None
  /\ result = None
  /\ exc = None
  /\ stdout = <<>>
  /\ stderr = <<>>
  /\ exit_code = "SUCCESS"
  /\ exit_status = -1
  /\ calls = <<>>
  /\ vcall = None

\* one application of _validate_value; vcall keeps the arguments and the
\* outcome
ApplyValidate(value, type_hint, field_name) ==
  /\ pc = "Engine"
  /\ vcall' = Some([op |-> "_validate_value", value |-> value,
                    type_hint |-> type_hint, field_name |-> field_name,
                    out |-> _validate_value(value, type_hint, field_name)])
  /\ UNCHANGED <<registry, pc, raw_input, request, func_info, validated_args,
                 result, exc, stdout, stderr, exit_code, exit_status, calls>>

\* one application of _validate_return_value
ApplyValidateReturn(value, type_hint) ==
  /\ pc = "Engine"
  /\ vcall' = Some([op |-> "_validate_return_value", value |-> value,
                    type_hint |-> type_hint, field_name |-> "return",
                    out |-> _validate_return_value(value, type_hint)])
  /\ UNCHANGED <<registry, pc, raw_input, request, func_info, validated_args,
                 result, exc, stdout, stderr, exit_code, exit_status, calls>>

NextEngine ==
  \/ \E value \in EngineValues, type_hint \in EngineHints,
        field_name \in EngineFields :
       ApplyValidate(value, type_hint, field_name)
  \/ \E value \in EngineValues, type_hint \in EngineHints :
       ApplyValidateReturn(value, type_hint)

SpecEngine == InitEngine /\ [][NextEngine]_vars

(***************************************************************************)
(* Code generation (src/python/gorunpy/cli.py)                             *)
(***************************************************************************)
\* s[m..n] counted from 1, the empty string when the range is empty
Sub(s, m, n) == IF m > n \/ m > Len(s) THEN "" ELSE SubSeq(s, m, n)

\* str.startswith
startswith(s, prefix) ==
  Len(s) >= Len(prefix) /\ Sub(s, 1, Len(prefix)) = prefix

\* s[start:-1]
SliceToLast(s, start) == Sub(s, start + 1, Len(s) - 1)

\* str.find, counted from 1; 0 when sep does not occur
find(s, sep) ==
  LET at == {i \in 1..(Len(s) - Len(sep) + 1) :
               Sub(s, i, i + Len(sep) - 1) = sep}
  IN IF at = {} THEN 0 ELSE CHOOSE i \in at : \A j \in at : i <= j

\* s.split(sep, 1)
split1(s, sep) ==
  LET i == find(s, sep)
  IN IF i = 0 THEN <<s>>
     ELSE <<Sub(s, 1, i - 1), Sub(s, i + Len(sep), Len(s))>>

RECURSIVE split(_, _)
\* s.split(sep)
split(s, sep) ==
  LET i == find(s, sep)
  IN IF i = 0 THEN <<s>>
     ELSE <<Sub(s, 1, i - 1)>> \o split(Sub(s, i + Len(sep), Len(s)), sep)

Lowercase == "abcdefghijklmnopqrstuvwxyz"
Uppercase == "ABCDEFGHIJKLMNOPQRSTUVWXYZ"

\* the character of `to` at the place c has in `from`, else c
Translate(c, from, to) ==
  LET at == {i \in 1..Len(from) : Sub(from, i, i) = c}
  IN IF at = {} THEN c ELSE LET i == CHOOSE j \in at : TRUE IN Sub(to, i, i)

RECURSIVE lower(_)
\* str.lower
lower(s) ==
  IF Len(s) = 0 THEN ""
  ELSE Translate(Sub(s, 1, 1), Uppercase, Lowercase) \o lower(Sub(s, 2, Len(s)))

\* str.capitalize: the first character upper, the others lower
capitalize(s) ==
  IF Len(s) = 0 THEN ""
  ELSE Translate(Sub(s, 1, 1), Lowercase, Uppercase) \o lower(Sub(s, 2, Len(s)))

RECURSIVE py_type_to_go(_)
\* py_type_to_go, lines 237-267
py_type_to_go(t) ==
  CASE t = "int" -> "int"
    [] t = "float" -> "float64"
    [] t = "str" -> "string"
    [] t = "bool" -> "bool"
    [] t = "None" -> ""
    [] t = "NoneType" -> ""
    [] t = "Any" -> "any"
    [] OTHER ->
         IF startswith(t, "List[")
         THEN "[]" \o py_type_to_go(SliceToLast(t, 5))
         ELSE IF startswith(t, "Dict[")
         THEN LET parts == split1(SliceToLast(t, 5), ", ")
              IN IF Len(parts) = 2
                 THEN "map[string]" \o py_type_to_go(parts[2])
                 ELSE "map[string]any"
         ELSE IF startswith(t, "Optional[")
         THEN "*" \o py_type_to_go(SliceToLast(t, 9))
         ELSE "any"

\* go_zero_value, lines 270-283
go_zero_value(t) ==
  LET go_type == py_type_to_go(t)
  IN CASE go_type = "int" -> "0"
       [] go_type = "float64" -> "0"
       [] go_type = "string" -> "\"\""
       [] go_type = "bool" -> "false"
       [] go_type = "" -> ""
       [] OTHER -> "nil"

\* to_go_name, lines 286-288
to_go_name(name) ==
  LET words == split(name, "_")
  IN JoinStr([i \in 1..Len(words) |-> capitalize(words[i])], "")

\* to_go_param_name, lines 291-295
to_go_param_name(name) ==
  IF name = "" THEN name
  ELSE lower(Sub(name, 1, 1)) \o Sub(name, 2, Len(name))

(***************************************************************************)
(* The type mapping applied to the wire strings of a worker                *)
(***************************************************************************)
RECURSIVE TypeHints(_)
\* the annotations export accepts, nested to the given depth, as typing
\* normalises them (Optional of None or of a Union is not a new type)
TypeHints(depth) ==
  IF depth = 0 THEN {TInt, TFloat, TStr, TBool, TNone, TAny}
  ELSE LET inner == TypeHints(depth - 1)
           primitives == {TInt, TFloat, TStr, TBool}
       IN inner \cup {TListBare, TDictBare}
            \cup {TList(h) : h \in inner}
            \cup {TDict(TStr, h) : h \in inner}
            \cup {TOptional(h) : h \in {g \in inner : g.t \notin {"NoneType", "Union"}}}
            \cup {TUnion(<<m[1], m[2]>>) :
                    m \in {n \in primitives \X primitives : n[1] # n[2]}}

InitTypes ==
  /\ registry = <<>>
  /\ pc = "Mapping"
  /\ raw_input = None
  /\ request = None
  /\ func_info = None
  /\ validated_args = None
  /\ result = None
  /\ exc = None
  /\ stdout = <<>>
  /\ stderr = <<>>
  /\ exit_code = "SUCCESS"
  /\ exit_status = -1
  /\ calls = <<>>
  /\ vcall = None

\* the worker prints a type as its wire string and the generator maps the
\* string to a Go type; vcall keeps the type, the string and the Go type
MapType(type_hint) ==
  /\ pc = "Mapping"
  /\ vcall' = Some([op |-> "py_type_to_go", type_hint |-> type_hint,
                    t |-> _type_to_string(type_hint),
                    out |-> py_type_to_go(_type_to_string(type_hint))])
  /\ UNCHANGED <<registry, pc, raw_input, request, func_info, validated_args,
                 result, exc, stdout, stderr, exit_code, exit_status, calls>>

NextTypes == \E type_hint \in TypeHints(MaxDepth) : MapType(type_hint)

SpecTypes == InitTypes /\ [][NextTypes]_vars

(***************************************************************************)
(* The generator run on a built worker                                     *)
(***************************************************************************)
\* introspect_binary, lines 216-233: the worker answers the __introspect__
\* request (dispatch line 381, then json.dumps) and the generator keeps the
\* functions whose name does not start with "_"
introspect_binary(reg) ==
  LET value == _validate_return_value(_introspect(reg), TDict(TStr, TAny)).value
      data == D(<<E(S("result"), D(<<E(S("value"), Encode(value))>>))>>)
      functions ==
        DictGetDefault(
          DictGetDefault(DictGetDefault(data, S("result"), D(<<>>)),
                         S("value"), D(<<>>)),
          S("functions"), L(<<>>))
  IN SelectSeq(functions.v,
               LAMBDA f : ~startswith(DictGet(f, S("name")).v, "_"))

\* Path(binary_path).name
PathName(path) == LET parts == split(path, "/") IN parts[Len(parts)]

\* GenerateMethod with the argument map keyed by the Go parameter names
GenerateMethod_KeyedByGoName(func, client_name) ==
  LET name == DictGet(func, S("name")).v
      params == DictGetDefault(func, S("parameters"), D(<<>>))
      return_type == DictGetDefault(func, S("return_type"), S("None")).v
      go_name == to_go_name(name)
      go_ret == py_type_to_go(return_type)
      go_zero == go_zero_value(return_type)
      param_items == params.v
      go_pname(i) == to_go_param_name(param_items[i].key.v)
      go_ptype(i) == py_type_to_go(param_items[i].val.v)
      param_parts ==
        <<"ctx context.Context">> \o
          [i \in 1..Len(param_items) |-> go_pname(i) \o " " \o go_ptype(i)]
      ret_part == IF go_ret # "" THEN "(" \o go_ret \o ", error)" ELSE "error"
      args_parts ==
        [i \in 1..Len(param_items) |->
           "\"" \o go_pname(i) \o "\": " \o go_pname(i)]
  IN [name |-> name,
      go_name |-> go_name,
      params |-> [i \in 1..Len(param_items) |->
                    [name |-> go_pname(i), type |-> go_ptype(i)]],
      ret |-> go_ret,
      args |-> [i \in 1..Len(param_items) |->
                  [key |-> go_pname(i), var |-> go_pname(i)]],
      lines |->
        <<"func (c *" \o client_name \o ") " \o go_name \o "("
            \o JoinStr(param_parts, ", ") \o ") " \o ret_part \o " {",
          "\targs := map[string]any{" \o JoinStr(args_parts, ", ") \o "}">>
        \o (IF go_ret # ""
            THEN <<"\tvar result " \o go_ret,
                   "\tif err := c.Call(ctx, \"" \o name
                     \o "\", args, &result); err != nil {",
                   "\t\treturn " \o go_zero \o ", err",
                   "\t}",
                   "\treturn result, nil">>
            ELSE <<"\treturn c.Call(ctx, \"" \o name \o "\", args, nil)">>)
        \o <<"}", "">>]

\* generate_go_client, lines 352-397: the method generated for one function;
\* params and args are the parameter list and the map literal of the method,
\* lines is its text
GenerateMethod(func, client_name) ==
  LET name == DictGet(func, S("name")).v
      params == DictGetDefault(func, S("parameters"), D(<<>>))
      return_type == DictGetDefault(func, S("return_type"), S("None")).v
      go_name == to_go_name(name)
      go_ret == py_type_to_go(return_type)
      go_zero == go_zero_value(return_type)
      param_items == params.v
      pname(i) == param_items[i].key.v
      go_pname(i) == to_go_param_name(pname(i))
      go_ptype(i) == py_type_to_go(param_items[i].val.v)
      param_parts ==
        <<"ctx context.Context">> \o
          [i \in 1..Len(param_items) |-> go_pname(i) \o " " \o go_ptype(i)]
      ret_part == IF go_ret # "" THEN "(" \o go_ret \o ", error)" ELSE "error"
      args_parts ==
        [i \in 1..Len(param_items) |->
           "\"" \o pname(i) \o "\": " \o go_pname(i)]
  IN [name |-> name,
      go_name |-> go_name,
      params |-> [i \in 1..Len(param_items) |->
                    [name |-> go_pname(i), type |-> go_ptype(i)]],
      ret |-> go_ret,
      args |-> [i \in 1..Len(param_items) |->
                  [key |-> pname(i), var |-> go_pname(i)]],
      lines |->
        <<"func (c *" \o client_name \o ") " \o go_name \o "("
            \o JoinStr(param_parts, ", ") \o ") " \o ret_part \o " {",
          "\targs := map[string]any{" \o JoinStr(args_parts, ", ") \o "}">>
        \o (IF go_ret # ""
            THEN <<"\tvar result " \o go_ret,
                   "\tif err := c.Call(ctx, \"" \o name
                     \o "\", args, &result); err != nil {",
                   "\t\treturn " \o go_zero \o ", err",
                   "\t}",
                   "\treturn result, nil">>
            ELSE <<"\treturn c.Call(ctx, \"" \o name \o "\", args, nil)">>)
        \o <<"}", "">>]

RECURSIVE Flatten(_)
\* the lines of the methods one after the other
Flatten(seqs) ==
  IF Len(seqs) = 0 THEN <<>> ELSE Head(seqs) \o Flatten(Tail(seqs))

\* generate_go_client, lines 298-399: the methods and the source text
generate_go_client(functions, package_name, binary_path, module_name, module_path) ==
  LET client_name == to_go_name(module_name) \o "Client"
      methods == [i \in 1..Len(functions) |->
                    GenerateMethod(functions[i], client_name)]
      head ==
        <<"package " \o package_name, "",
          "import (",
          "\t\"context\"",
          "\t_ \"embed\"",
          "\t\"os\"",
          "\t\"path/filepath\"",
          "\t\"" \o module_path \o "\"",
          ")",
          "",
          "//go:embed " \o binary_path,
          "var embeddedBinary []byte",
          "",
          "var extractedBinaryPath string",
          "",
          "func init() {",
          "\tdir, err := os.MkdirTemp(\"\", \"gorunpy-*\")",
          "\tif err != nil {",
          "\t\tpanic(\"gorunpy: failed to create temp dir: \" + err.Error())",
          "\t}",
          "\textractedBinaryPath = filepath.Join(dir, \""
            \o PathName(binary_path) \o "\")",
          "\tif err := os.WriteFile(extractedBinaryPath, embeddedBinary, 0755); err != nil {",
          "\t\tpanic(\"gorunpy: failed to write binary: \" + err.Error())",
          "\t}",
          "}",
          "",
          "type " \o client_name \o " struct {",
          "\t*gorunpy.Client",
          "}",
          "",
          "func New" \o client_name \o "() *" \o client_name \o " {",
          "\treturn &" \o client_name
            \o "{Client: gorunpy.NewClient(extractedBinaryPath)}",
          "}",
          "">>
  IN [methods |-> methods,
      text |-> JoinStr(head \o Flatten([i \in 1..Len(methods) |->
                                          methods[i].lines]), "\n")]

\* the values a Go program passes to a generated method
BindingValues == {I(1), S("s"), Null}

\* the worker is built and run on the __introspect__ request: main registers
\* __introspect__ and the generator reads the functions from the response
IntrospectBinary ==
  /\ pc = "Importing"
  /\ registry' = _register_introspect(registry)
  /\ result' = Some(L(introspect_binary(registry')))
  /\ pc' = "Generating"
  /\ UNCHANGED <<raw_input, request, func_info, validated_args, exc, stdout,
                 stderr, exit_code, exit_status, calls, vcall>>

\* generate_go_client on the introspected functions
GenerateClient ==
  /\ pc = "Generating"
  /\ vcall' = Some([op |-> "generate_go_client", functions |-> result[1].v,
                    out |-> generate_go_client(result[1].v, "main",
                                               "dist/mathlib", "mathlib",
                                               "github.com/younseoryu/gorunpy/gorunpy")])
  /\ pc' = "Generated"
  /\ UNCHANGED <<registry, raw_input, request, func_info, validated_args,
                 result, exc, stdout, stderr, exit_code, exit_status, calls>>

\* a Go program calls generated method n with the values vals, one per
\* parameter: the method builds its argument map from its parameters and
\* sends { function, args } to the worker, which resolves the function and
\* its arguments (_dispatch, lines 337-375)
BindingCall(n, vals) ==
  /\ pc = "Generated"
  /\ n \in 1..Len(vcall[1].out.methods)
  /\ LET method == vcall[1].out.methods[n]
         bound(var) == vals[CHOOSE i \in 1..Len(method.params) :
                                  method.params[i].name = var]
         args == D([j \in 1..Len(method.args) |->
                      E(S(method.args[j].key), bound(method.args[j].var))])
         req == Req(method.name, args)
         found == LookupFunction(registry, CheckRequest(req).value)
         r == IF found.raised THEN found
              ELSE ValidateArguments(found.value, req)
     IN /\ DOMAIN vals = 1..Len(method.params)
        /\ request' = Some(req)
        /\ IF r.raised
           THEN exc' = Some(r.exc) /\ validated_args' = None
           ELSE exc' = None /\ validated_args' = Some(r.value)
  /\ UNCHANGED <<registry, pc, raw_input, func_info, result, stdout, stderr,
                 exit_code, exit_status, calls, vcall>>

NextGen ==
  \/ \E decl \in Declarations : Export(decl)
  \/ IntrospectBinary
  \/ GenerateClient
  \/ \E n \in 1..MaxExports, decl \in Declarations :
       \E vals \in [1..Len(decl.params) -> BindingValues] :
         BindingCall(n, vals)

SpecGen == Init /\ [][NextGen]_vars

(***************************************************************************)
(* Vocabulary of the properties                                            *)
(***************************************************************************)
RECURSIVE WellTyped(_, _)
\* the value belongs to the descriptor: null belongs to NoneType, Any and a
\* Union holding NoneType; bool does not belong to int or float; int belongs
\* to float; Dict keys are strings
WellTyped(value, type_hint) ==
  LET args == get_args(type_hint)
  IN CASE type_hint = TAny -> TRUE
       [] type_hint = TNone -> value = Null
       [] type_hint.t = "Union" ->
            \E i \in 1..Len(args) : WellTyped(value, args[i])
       [] type_hint.t = "List" ->
            /\ value.k = "list"
            /\ Len(args) > 0 =>
                 \A i \in 1..Len(value.v) : WellTyped(value.v[i], args[1])
       [] type_hint.t = "Dict" ->
            /\ value.k = "dict"
            /\ \A i \in 1..Len(value.v) : value.v[i].key.k = "str"
            /\ Len(args) > 0 =>
                 \A i \in 1..Len(value.v) : WellTyped(value.v[i].val, args[2])
       [] type_hint = TInt -> value.k = "int"
       [] type_hint = TFloat -> value.k \in {"int", "float"}
       [] type_hint = TStr -> value.k = "str"
       [] type_hint = TBool -> value.k = "bool"
       [] OTHER -> FALSE

\* Optional[T], a Union holding NoneType, or Any
Nullable(type_hint) ==
  \/ type_hint = TAny
  \/ type_hint.t = "Union" /\ InArgs(TNone, get_args(type_hint))

\* the text on stdin is a JSON object with a string `function` field
IsRequestObject(text) ==
  /\ text.form = "json"
  /\ text.doc.k = "dict"
  /\ DictHas(text.doc, S("function"))
  /\ DictGet(text.doc, S("function")).k = "str"

Finished == pc = "Exited"
RequestedName == DictGet(raw_input[1].doc, S("function")).v
RequestedArgs == DictGetDefault(raw_input[1].doc, S("args"), D(<<>>))
\* the run was given a request object that names a registered function and
\* carries an object (or nothing) as args
WellFormedCall ==
  /\ raw_input # None
  /\ IsRequestObject(raw_input[1])
  /\ HasFunction(registry, RequestedName)
  /\ RequestedArgs.k = "dict"
Target == RegistryGet(registry, RequestedName)[1]
Declared == Target.type_hints
DeclaredNames == {Declared[i].name : i \in 1..Len(Declared)}
Given(i) == DictHas(RequestedArgs, S(Declared[i].name))
GivenValue(i) == DictGet(RequestedArgs, S(Declared[i].name))
\* parameter i is supplied with a value of its type, or left out and nullable
Sound(i) ==
  IF Given(i) THEN WellTyped(GivenValue(i), Declared[i].type)
  ELSE Nullable(Declared[i].type)
Undeclared ==
  {RequestedArgs.v[i].key.v : i \in 1..Len(RequestedArgs.v)} \ DeclaredNames

\* the single error response of the run has this kind and exit status
FailedWith(kind, status) ==
  /\ stdout = <<>>
  /\ Len(stderr) = 1
  /\ stderr[1].ok = FALSE
  /\ stderr[1].error.kind = kind
  /\ exit_status = status

(***************************************************************************)
(* Properties                                                              *)
(***************************************************************************)
\* C1: when main() has ended, the outcome fixes channel and exit status: a
\* dispatch that returned has its response alone on stdout and status 0; a
\* ValidationError, TypeError or FunctionNotFoundError has its error alone
\* on stderr and status 1; any other exception is reported as RuntimeError
\* alone on stderr with status 2.
C1_OutcomeFixesExitAndChannel ==
  Finished =>
    IF exc = None
    THEN /\ stdout = <<_make_success_response(Encode(result[1]))>>
         /\ stderr = <<>>
         /\ exit_status = 0
    ELSE IF exc[1].cls \in {"ValidationError", "TypeError_",
                            "FunctionNotFoundError"}
    THEN /\ stderr = <<_make_error_response(exc[1])>>
         /\ stdout = <<>>
         /\ exit_status = 1
    ELSE FailedWith("RuntimeError", 2)

\* C2: a run of main() that has ended has emitted exactly one response.
C2_ExactlyOneResponse ==
  Finished => Len(stdout) + Len(stderr) = 1

\* C3: a non-blank payload that is not a JSON object with a string
\* `function` field is answered with ValidationError and exit status 1.
C3_MalformedRequestIsValidationError ==
  (Finished /\ raw_input[1].form # "blank" /\ ~IsRequestObject(raw_input[1]))
    => FailedWith("ValidationError", 1)

\* C4: validating null succeeds, returning null, exactly when the descriptor
\* is NoneType, Any or a Union holding NoneType, and raises TypeError
\* otherwise.
C4_NullAcceptedIffNullable ==
  (vcall # None /\ vcall[1].op = "_validate_value" /\ vcall[1].value = Null)
    => LET out == vcall[1].out
           hint == vcall[1].type_hint
       IN IF hint = TNone \/ Nullable(hint)
          THEN ~out.raised /\ out.value = Null
          ELSE out.raised /\ out.exc.kind = "TypeError"

\* C5: when the first declared parameter that is not sound is an absent,
\* non-nullable one, the run ends with ValidationError "missing required
\* argument '<name>'", field <name>, and the function is not invoked.
C5_MissingRequiredArgument ==
  (Finished /\ WellFormedCall) =>
    \A i \in 1..Len(Declared) :
      (/\ ~Given(i)
       /\ ~Nullable(Declared[i].type)
       /\ \A j \in 1..(i - 1) : Sound(j))
      => /\ FailedWith("ValidationError", 1)
         /\ stderr[1].error =
              [kind |-> "ValidationError",
               message |-> "missing required argument '"
                             \o Declared[i].name \o "'",
               field |-> Declared[i].name]
         /\ calls = <<>>

\* C6: an absent parameter whose descriptor is nullable never produces a
\* missing-argument error, and the function, when invoked, receives null
\* for it.
C6_AbsentNullableDefaultsToNull ==
  (Finished /\ WellFormedCall) =>
    \A i \in 1..Len(Declared) :
      (~Given(i) /\ Nullable(Declared[i].type))
      => /\ \A n \in 1..Len(stderr) :
              stderr[n].error.message #
                "missing required argument '" \o Declared[i].name \o "'"
         /\ \A n \in 1..Len(calls) :
              DictGet(calls[n].kwargs, S(Declared[i].name)) = Null

\* C7: with every declared parameter present and well-typed and at least
\* one undeclared key in args, the run ends with a ValidationError whose
\* message lists the undeclared keys in sorted order, and the function is
\* not invoked.
C7_UnexpectedArgumentsListed ==
  (/\ Finished
   /\ WellFormedCall
   /\ \A i \in 1..Len(Declared) : Given(i) /\ Sound(i)
   /\ Undeclared # {})
  => /\ FailedWith("ValidationError", 1)
     /\ stderr[1].error.message =
          "unexpected argument(s): " \o JoinStr(sorted(Undeclared), ", ")
     /\ calls = <<>>

\* C8: a request object naming a function that is not in the registry ends
\* with FunctionNotFoundError and exit status 1, whatever args is, and
\* nothing is invoked.
C8_UnknownFunctionNotFound ==
  (/\ Finished
   /\ IsRequestObject(raw_input[1])
   /\ ~HasFunction(registry, RequestedName))
  => /\ stderr = <<_make_error_response(FunctionNotFoundError(RequestedName))>>
     /\ stdout = <<>>
     /\ exit_status = 1
     /\ calls = <<>>

\* C8 witness: the run of a request for an unregistered name whose args is
\* not an object has ended with FunctionNotFoundError.
C8_Witness ==
  /\ Finished
  /\ IsRequestObject(raw_input[1])
  /\ ~HasFunction(registry, RequestedName)
  /\ DictHas(raw_input[1].doc, S("args"))
  /\ RequestedArgs.k # "dict"
  /\ FailedWith("FunctionNotFoundError", 1)

\* C9: a success response carries a value of the function's declared
\* return descriptor.
C9_SuccessValueMatchesReturnType ==
  stdout # <<>> => WellTyped(result[1], func_info[1].return_type)

\* C10: a call whose declared parameters are all sound, with no undeclared
\* key, and whose body (if it runs) returns an encodable value of the
\* declared return descriptor, ends in Success with exit status 0.
C10_WellTypedCallSucceeds ==
  (/\ Finished
   /\ WellFormedCall
   /\ \A i \in 1..Len(Declared) : Sound(i)
   /\ Undeclared = {}
   /\ \A n \in 1..Len(calls) :
        /\ ~calls[n].outcome.raised
        /\ WellTyped(calls[n].outcome.value, Target.return_type)
        /\ Encodable(calls[n].outcome.value))
  => /\ Len(stdout) = 1
     /\ stdout[1].ok
     /\ stderr = <<>>
     /\ exit_status = 0

\* C11: the kind of every error response written is one of ValidationError,
\* TypeError, FunctionNotFoundError, RuntimeError.
C11_ErrorKindsClosed ==
  \A n \in 1..Len(stderr) :
    stderr[n].error.kind \in
      {"ValidationError", "TypeError", "FunctionNotFoundError", "RuntimeError"}

\* an application of _validate_value is on record
Validated == vcall # None /\ vcall[1].op = "_validate_value"

\* C12: against int, float, str and bool the engine accepts exactly the
\* values of that type, a bool never counting as int or float; an int given
\* for float is accepted and returned as the float of equal value; every
\* other value is returned unchanged; a bool given for int is refused with
\* "expected int, got bool".
C12_PrimitiveStrictness ==
  (Validated /\ vcall[1].type_hint \in {TInt, TFloat, TStr, TBool}) =>
    LET value == vcall[1].value
        hint == vcall[1].type_hint
        out == vcall[1].out
        accepted == IF hint = TFloat THEN value.k \in {"int", "float"}
                    ELSE value.k = hint.t
    IN /\ out.raised = ~accepted
       /\ out.raised => out.exc.kind = "TypeError"
       /\ ~out.raised =>
            out.value = IF hint = TFloat /\ value.k = "int" THEN F(value.v)
                        ELSE value
       /\ (hint = TInt /\ value.k = "bool") =>
            out.exc.message = "expected int, got bool"

\* C12 witness: the integer 3 validated against float came back as 3.0.
C12_Witness ==
  /\ Validated
  /\ vcall[1].value = I(3)
  /\ vcall[1].type_hint = TFloat
  /\ vcall[1].out = Return(F(3))

\* the engine refuses the value for the descriptor
Refused(value, type_hint) == _validate_value(value, type_hint, "").raised

RECURSIVE OffendingPath(_, _, _)
\* the path of the first offending sub-value of a refused value: the first
\* refused item of a typed list, the first entry of a typed dict whose key
\* is not a string or whose value is refused, followed down from the
\* starting path, a Union being entered through its first member that has
\* the container type of the value
OffendingPath(value, type_hint, path) ==
  LET args == get_args(type_hint)
      badItems == {i \in 1..Len(value.v) : Refused(value.v[i], args[1])}
      badEntries == {i \in 1..Len(value.v) :
                       \/ value.v[i].key.k # "str"
                       \/ Refused(value.v[i].val, args[2])}
      first(set) == CHOOSE i \in set : \A j \in set : i <= j
      sameShape == {i \in 1..Len(args) :
                      \/ args[i].t = "List" /\ value.k = "list"
                      \/ args[i].t = "Dict" /\ value.k = "dict"}
  IN IF type_hint.t = "List" /\ Len(args) > 0 /\ value.k = "list"
          /\ badItems # {}
     THEN OffendingPath(value.v[first(badItems)], args[1],
                        path \o "[" \o ToString(first(badItems) - 1) \o "]")
     ELSE IF type_hint.t = "Dict" /\ Len(args) > 0 /\ value.k = "dict"
               /\ badEntries # {}
     THEN LET e == value.v[first(badEntries)]
              at == path \o "." \o PyFormat(e.key)
          IN IF e.key.k # "str" THEN at
             ELSE OffendingPath(e.val, args[2], at)
     ELSE IF type_hint.t = "Union" /\ sameShape # {}
     THEN OffendingPath(value, args[first(sameShape)], path)
     ELSE path

\* C13: every TypeError of the engine carries the starting path extended by
\* [i] for each list index and .key for each dict key down to the first
\* offending sub-value, also below a Union whose members are lists or dicts.
C13_FieldIsOffendingPath ==
  (Validated /\ vcall[1].out.raised) =>
    /\ vcall[1].out.exc.kind = "TypeError"
    /\ vcall[1].out.exc.field =
         Some(OffendingPath(vcall[1].value, vcall[1].type_hint,
                            vcall[1].field_name))

\* a mapping whose keys are all strings
StringKeyed(value) ==
  /\ value.k = "dict"
  /\ \A i \in 1..Len(value.v) : value.v[i].key.k = "str"

\* C14: against a Dict descriptor, with or without a value type, a value is
\* accepted only if it is a mapping whose keys are all strings; any other
\* value fails with a TypeError, and with a value type every value of an
\* accepted mapping is one the engine accepts for that type.
C14_DictNeedsStringKeys ==
  (Validated /\ vcall[1].type_hint.t = "Dict") =>
    LET value == vcall[1].value
        args == get_args(vcall[1].type_hint)
        out == vcall[1].out
    IN /\ ~out.raised => StringKeyed(value)
       /\ ~StringKeyed(value) => out.raised /\ out.exc.kind = "TypeError"
       /\ (~out.raised /\ Len(args) > 0) =>
            \A i \in 1..Len(value.v) : ~Refused(value.v[i].val, args[2])

\* C15: a value the engine accepts is a fixed point of the engine: validating
\* the result again against the same descriptor succeeds and returns it
\* unchanged, an int widened to float and a Union holding both int and float
\* included.
C15_ValidationIdempotent ==
  (Validated /\ ~vcall[1].out.raised) =>
    _validate_value(vcall[1].out.value, vcall[1].type_hint,
                    vcall[1].field_name) = Return(vcall[1].out.value)

\* C15 witness: the int 3 against Union[float, int] was accepted as the
\* float 3.0, a result that differs from the value given.
C15_Witness ==
  /\ Validated
  /\ vcall[1].value = I(3)
  /\ vcall[1].type_hint = TUnion(<<TFloat, TInt>>)
  /\ vcall[1].out = Return(F(3))

\* C16: a name stays with its first binding: no step replaces or removes an
\* entry of the registry, so a registration under a name already taken does
\* not go through.
C16_FirstBindingKept ==
  [][\A i \in 1..Len(registry) :
       RegistryGet(registry', registry[i].name) = Some(registry[i])]_vars

RECURSIVE Expressible(_)
\* the descriptor algebra: the four primitives, NoneType, Any, List with or
\* without an item, Dict with string keys with or without a value, and Union
\* (Optional included) of expressible members
Expressible(type_hint) ==
  LET args == type_hint.args
  IN CASE type_hint.t \in {"int", "float", "str", "bool", "NoneType", "Any"} ->
            TRUE
       [] type_hint.t = "List" ->
            \A i \in 1..Len(args) : Expressible(args[i])
       [] type_hint.t = "Dict" ->
            args = <<>> \/ (args[1] = TStr /\ Expressible(args[2]))
       [] type_hint.t = "Union" ->
            \A i \in 1..Len(args) : Expressible(args[i])
       [] OTHER -> FALSE

\* every parameter type and the return type of the declaration are in the
\* algebra (a missing return annotation stands for Any)
DeclExpressible(decl) ==
  /\ \A i \in 1..Len(decl.params) : Expressible(decl.params[i].type)
  /\ decl.ret # None => Expressible(decl.ret[1])

\* C17: an export of a function with a parameter or return type outside the
\* descriptor algebra, at any nesting depth, ends the import with a
\* ValueError and leaves the registry as it was; so every registered
\* signature, and with it every function dispatch calls, has only
\* expressible types.
C17_InexpressibleExportRejected ==
  /\ [](\A i \in 1..Len(registry) :
          /\ \A j \in 1..Len(registry[i].type_hints) :
               Expressible(registry[i].type_hints[j].type)
          /\ Expressible(registry[i].return_type))
  /\ [][\A decl \in Declarations :
          (Export(decl) /\ ~DeclExpressible(decl)) =>
            /\ registry' = registry
            /\ pc' = "StartupFailed"
            /\ exc' # None /\ exc'[1].cls = "ValueError"]_vars

\* C17 witness: with a function already registered, the import stopped on a
\* ValueError that names the return type Optional[bytes].
C17_Witness ==
  /\ pc = "StartupFailed"
  /\ Len(registry) > 0
  /\ exc # None
  /\ exc[1].cls = "ValueError"
  /\ exc[1].message =
       "Return type of function 'blob' is not JSON-serializable: typing.Optional[bytes]"

\* the entry { name, parameters, return_type } of a signature, the types as
\* wire strings
SignatureEntry(info) ==
  D(<<E(S("name"), S(info.name)),
      E(S("parameters"),
        D([i \in 1..Len(info.type_hints) |->
             E(S(info.type_hints[i].name),
               S(_type_to_string(info.type_hints[i].type)))])),
      E(S("return_type"), S(_type_to_string(info.return_type)))>>)

\* C18: a call of the introspection function returns exactly one entry for
\* every registered function other than __introspect__ itself.
C18_IntrospectionListsTheOthers ==
  \A n \in 1..Len(calls) :
    calls[n].func = "__introspect__" =>
      LET others == SelectSeq(registry,
                              LAMBDA info : info.name # "__introspect__")
      IN calls[n].outcome =
           Return(D(<<E(S("functions"),
                        L([i \in 1..Len(others) |->
                             SignatureEntry(others[i])]))>>))

RECURSIVE GoType(_)
\* the table of the type mapping, on descriptors; the wire string of a List
\* without an item type and of a Union that is not an Optional are not in the
\* table and count as unrecognized
GoType(type_hint) ==
  LET args == type_hint.args
  IN CASE type_hint = TInt -> "int"
       [] type_hint = TFloat -> "float64"
       [] type_hint = TStr -> "string"
       [] type_hint = TBool -> "bool"
       [] type_hint = TNone -> ""
       [] type_hint.t = "List" /\ args # <<>> -> "[]" \o GoType(args[1])
       [] type_hint.t = "Dict" /\ args = <<>> -> "map[string]any"
       [] type_hint.t = "Dict" /\ args # <<>> -> "map[string]" \o GoType(args[2])
       [] type_hint.t = "Union" /\ Len(args) = 2 /\ args[2] = TNone ->
            "*" \o GoType(args[1])
       [] OTHER -> "any"

\* C19: the Go type the generator derives from the wire string of a type is
\* the one of the table: the four primitives, a slice for List[T],
\* map[string]any for a Dict without a value type, a map of the mapped T for
\* Dict[str, T], a pointer for Optional[T], any for Any and for what is not
\* recognized, nothing for None.
C19_TypeMappingFollowsTable ==
  (vcall # None /\ vcall[1].op = "py_type_to_go") =>
    vcall[1].out = GoType(vcall[1].type_hint)

\* the generator has produced the client of the worker
Generated == pc = "Generated" /\ vcall # None /\ vcall[1].op = "generate_go_client"

\* C20: every generated method takes, after ctx, one parameter per declared
\* parameter of its function in the declared order, and its argument map has
\* exactly one entry per declared parameter, keyed by the declared name and
\* filled from the parameter at that position; so the worker never answers a
\* call made through a generated method with a missing-argument, an
\* unexpected-argument or an unknown-function error.
C20_BindingMirrorsSignature ==
  Generated =>
    /\ \A n \in 1..Len(vcall[1].out.methods) :
         LET method == vcall[1].out.methods[n]
             declared == RegistryGet(registry, method.name)[1].type_hints
         IN /\ Len(method.params) = Len(declared)
            /\ Len(method.args) = Len(declared)
            /\ \A i \in 1..Len(declared) :
                 /\ method.params[i].name = to_go_param_name(declared[i].name)
                 /\ method.args[i].key = declared[i].name
                 /\ method.args[i].var = method.params[i].name
    /\ (request # None /\ exc # None) =>
         /\ exc[1].kind # "FunctionNotFoundError"
         /\ ~startswith(exc[1].message, "missing required argument")
         /\ ~startswith(exc[1].message, "unexpected argument")

\* C20 witness: the method generated for fetch_all(Key, limit) was called and
\* the worker resolved both arguments under their declared names.
C20_Witness ==
  /\ Generated
  /\ request # None
  /\ DictGet(request[1], S("function")) = S("fetch_all")
  /\ exc = None
  /\ validated_args = Some(D(<<E(S("Key"), S("s")), E(S("limit"), I(1))>>))

RECURSIVE InWireGrammar(_)
\* the descriptors of the wire grammar: the primitives, None, Any, List[T],
\* Dict[str, T] and Optional[T] over descriptors of the grammar
InWireGrammar(type_hint) ==
  LET args == type_hint.args
  IN CASE type_hint.t \in {"int", "float", "str", "bool", "NoneType", "Any"} ->
            TRUE
       [] type_hint.t = "List" -> Len(args) = 1 /\ InWireGrammar(args[1])
       [] type_hint.t = "Dict" ->
            Len(args) = 2 /\ args[1] = TStr /\ InWireGrammar(args[2])
       [] type_hint.t = "Union" ->
            Len(args) = 2 /\ args[2] = TNone /\ InWireGrammar(args[1])
       [] OTHER -> FALSE

\* the descriptors of the wire grammar up to the depth of the model
WireGrammar == {d \in TypeHints(MaxDepth) : InWireGrammar(d)}

\* C21: a descriptor of the wire grammar is recovered from its wire string:
\* no other descriptor of the grammar prints to the same string, and none is
\* read from its string by the generator as the same type.
C21_WireStringRoundTrip ==
  (vcall # None /\ vcall[1].op = "py_type_to_go"
     /\ InWireGrammar(vcall[1].type_hint)) =>
    \A d \in WireGrammar :
      d # vcall[1].type_hint =>
        /\ _type_to_string(d) # vcall[1].t
        /\ py_type_to_go(_type_to_string(d)) # vcall[1].out

\* C21 witness: List[Optional[int]] was printed as "List[Optional[int]]" and
\* read back as a slice of pointers to int.
C21_Witness ==
  /\ vcall # None
  /\ vcall[1].op = "py_type_to_go"
  /\ vcall[1].type_hint = TList(TOptional(TInt))
  /\ vcall[1].t = "List[Optional[int]]"
  /\ vcall[1].out = "[]*int"

\* the body of the function was called and raised a ValidationError
BodyRaisedValidationError ==
  /\ Len(calls) > 0
  /\ calls[Len(calls)].outcome.raised
  /\ calls[Len(calls)].outcome.exc.cls = "ValidationError"

\* C22: a ValidationError raised by the body of the function is the one
\* response of the run: alone on stderr with kind ValidationError and the
\* message and field the body gave it, and the exit status is 1.
C22_BodyValidationErrorPassedOn ==
  (Finished /\ BodyRaisedValidationError) =>
    LET e == calls[Len(calls)].outcome.exc
    IN /\ stdout = <<>>
       /\ Len(stderr) = 1
       /\ stderr[1].ok = FALSE
       /\ stderr[1].error =
            IF e.field = None
            THEN [kind |-> "ValidationError", message |-> e.message]
            ELSE [kind |-> "ValidationError", message |-> e.message,
                  field |-> e.field[1]]
       /\ exit_status = 1

\* C22 witness: divide was called with b = 0 widened to 0.0 and the run
\* ended with the division-by-zero error for field b.
C22_Witness ==
  /\ Finished
  /\ BodyRaisedValidationError
  /\ calls[Len(calls)].func = "divide"
  /\ DictGet(calls[Len(calls)].kwargs, S("b")) = F(0)
  /\ stderr = <<[ok |-> FALSE,
                 error |-> [kind |-> "ValidationError",
                            message |-> "division by zero", field |-> "b"]]>>
  /\ exit_status = 1

\* C24: a non-null value validated against a Union gives what validating it
\* against the first member other than NoneType that accepts it gives, the
\* members taken in declared order, and fails with a TypeError only when no
\* member accepts it.
C24_UnionFirstMatch ==
  (Validated /\ vcall[1].type_hint.t = "Union" /\ vcall[1].value # Null) =>
    LET value == vcall[1].value
        field_name == vcall[1].field_name
        members == SelectSeq(get_args(vcall[1].type_hint),
                             LAMBDA a : a # TNone)
        accepting == {i \in 1..Len(members) :
                        ~_validate_value(value, members[i], field_name).raised}
    IN IF accepting = {}
       THEN vcall[1].out.raised /\ vcall[1].out.exc.kind = "TypeError"
       ELSE vcall[1].out =
              _validate_value(value,
                              members[CHOOSE i \in accepting :
                                        \A j \in accepting : i <= j],
                              field_name)

\* C24 witness: the int 3 against Union[int, float] stayed the int 3, though
\* the later member float accepts it as 3.0.
C24_Witness ==
  /\ Validated
  /\ vcall[1].value = I(3)
  /\ vcall[1].type_hint = TUnion(<<TInt, TFloat>>)
  /\ vcall[1].out = Return(I(3))
  /\ _validate_value(I(3), TFloat, vcall[1].field_name) = Return(F(3))

\* C25: the names list_functions returns are pairwise distinct at all times,
\* and no step removes or moves a name already listed: the list after the
\* step starts with the list before it, so every name stays at the position
\* of its first registration.
C25_NamesAppendOnly ==
  /\ [](\A i, j \in 1..Len(registry) :
          list_functions(registry)[i] = list_functions(registry)[j] => i = j)
  /\ [][/\ Len(list_functions(registry')) >= Len(list_functions(registry))
        /\ \A i \in 1..Len(registry) :
             list_functions(registry')[i] = list_functions(registry)[i]]_vars

\* C25 witness: the module exported __introspect__ and then sum, and main
\* registered its own __introspect__: the name is still listed first, once.
C25_Witness ==
  /\ list_functions(registry) = <<"__introspect__", "sum">>
  /\ registry[1].func = "_introspect"

\* C26: the exported callable is invoked at most once in a run, and not
\* before the request has been parsed, its function resolved and its
\* arguments checked: when it is invoked, the request is an object naming a
\* registered function with an object as args, args has no undeclared key,
\* and the keyword arguments are the declared parameters in order, each with
\* the validated value of the argument given or, for one left out, null.
C26_InvokedOnceAfterResolution ==
  /\ Len(calls) <= 1
  /\ pc \in {"Importing", "AwaitingRequest", "Parsing", "ResolvingFunction",
             "ValidatingArgs"} => calls = <<>>
  /\ calls # <<>> =>
       /\ WellFormedCall
       /\ calls[1].func = RequestedName
       /\ Undeclared = {}
       /\ Len(calls[1].kwargs.v) = Len(Declared)
       /\ \A i \in 1..Len(Declared) :
            LET r == _validate_value(GivenValue(i), Declared[i].type,
                                     Declared[i].name)
            IN /\ calls[1].kwargs.v[i].key = S(Declared[i].name)
               /\ IF Given(i)
                  THEN ~r.raised /\ calls[1].kwargs.v[i].val = r.value
                  ELSE /\ Nullable(Declared[i].type)
                       /\ calls[1].kwargs.v[i].val = Null

\* C26 witness: greet was invoked once for a request that leaves greeting
\* out: name validated, greeting defaulted to null.
C26_Witness ==
  /\ Len(calls) = 1
  /\ calls[1].func = "greet"
  /\ ~DictHas(RequestedArgs, S("greeting"))
  /\ DictGet(calls[1].kwargs, S("greeting")) = Null
  /\ DictGet(calls[1].kwargs, S("name")) = DictGet(RequestedArgs, S("name"))

\* the declared parameters of the request that are faulty: left out though
\* not nullable, or given a value that is not of the declared type
Faulty == {i \in 1..Len(Declared) : ~Sound(i)}

\* the error response is about the parameter: its field is the name of the
\* parameter or a path below it
ErrorNames(error, name) ==
  /\ "field" \in DOMAIN error
  /\ \/ error.field = name
     \/ startswith(error.field, name \o "[")
     \/ startswith(error.field, name \o ".")

C28_MethodNamesDistinct ==
  Generated =>
    \A m, n \in 1..Len(vcall[1].out.methods) :
      vcall[1].out.methods[m].name # vcall[1].out.methods[n].name =>
        vcall[1].out.methods[m].go_name # vcall[1].out.methods[n].go_name

====
